---- MODULE Spec2Model ----
(***************************************************************************)
(* A model of ridat_reader.py: read_ridat_file decodes a RiDat file field  *)
(* by field (header, System, Application and Processing sections, then the *)
(* signal records), and export_ridat_data_to_text_file writes the decoded  *)
(* signal to a text file.  One statement of read_ridat_file is one step.   *)
(*                                                                         *)
(* Python exceptions are named by the error kinds of the specification:    *)
(*   IOError (line 208)          "InvalidMagic"                            *)
(*   IOError (line 213)          "UnsupportedFormat"                       *)
(*   IOError (line 215)          "UnknownVersion"                          *)
(*   struct.error (short read)   "UnexpectedEndOfFile"                     *)
(*   UnicodeDecodeError          "InvalidEncoding"                         *)
(*   ValueError (line 486)       "EmptyDelimiter"                          *)
(*   OSError of seek(negative)   "InvalidSeek"                             *)
(*   FileNotFoundError of open   "FileNotFound"                            *)
(*   ValueError of line 489      "ShapeMismatch"                           *)
(***************************************************************************)
EXTENDS Integers, Sequences, FiniteSets, TLC

VARIABLES
  file,         \* the source file: [exists, len, ints, badAt, words]
  first,        \* the outcome of the call on the file as first given
  call,         \* the call made: [fn, delimiter]
  destBefore,   \* the destination file as it was before the call
  phase,        \* where the call stands
  pc,           \* read_ridat_file: index in Prog of the next statement
  lpc,          \* signal loop: 0 before real, 1 before imag, 2 before time
  pos,          \* cursor of ridat_file
  fileOpen,     \* ridat_file is open
  openCount,    \* number of times the source was opened
  locals,       \* local variables of read_ridat_file assigned so far
  sys_params,   \* the SysParameters object (NoObject before line 229)
  app_params,   \* the AppParameters object (NoObject before line 365)
  proc_params,  \* the ProcessingParameters object (NoObject before line 438)
  writes,       \* per 32-element array and index: number of stores since creation
  real_values,
  imag_values,
  time_values,
  result,       \* what read_ridat_file returned
  err,          \* the exception raised, "" when none
  data,         \* export: the (time.size, 3) array, as a sequence of rows
  dest          \* the destination file: [exists, lines]

vars == <<file, first, call, destBefore, phase, pc, lpc, pos, fileOpen, openCount, locals,
          sys_params, app_params, proc_params, writes, real_values, imag_values,
          time_values, result, err, data, dest>>

(***************************************************************************)
(* Program constants.                                                      *)
(***************************************************************************)
MagicNumber == 190955
IntWidth == 4
FloatWidth == 4
DoubleWidth == 8

(***************************************************************************)
(* Values.  An int is an integer.  A float32 is named by its 32 bits (as   *)
(* the int32 they spell) and a float64 by its two 32-bit halves <<lo, hi>>;*)
(* widening a float32 to float64 is exact, so it keeps its name.  A string *)
(* is the bytes [at, at+len) of the file.  0 and the 0.0 of a member that  *)
(* holds ints or float32s are both 0; the 0.0 of a member that holds a     *)
(* float64 is the float64 whose halves are 0.  None is the empty value.    *)
(***************************************************************************)
EmptyString == [at |-> 0, len |-> 0]
Zero64 == <<0, 0>>
None == <<>>
NoObject == [f \in {} |-> 0]
NoResult == [ok |-> FALSE]
Zeros(n) == [i \in 0..(n - 1) |-> 0]

SysParameters ==
  ("Dead1" :> 0) @@ ("Dead2" :> 0) @@ ("P90" :> 0) @@ ("P180" :> 0) @@
  ("rf_channels[0].SF" :> Zero64) @@ ("rf_channels[0].Offset" :> Zero64) @@
  ("rf_channels[0].MultReg" :> 0) @@ ("rf_channels[0].PhaseTwiddle" :> 0) @@
  ("rf_channels[0].ChanAOffset" :> 0) @@ ("rf_channels[0].ChanBOffset" :> 0) @@
  ("rf_channels[0].ExtAPhaseTrim" :> 0) @@ ("rf_channels[0].ExtAAmpTrim" :> 0) @@
  ("rf_channels[0].ExtBPhaseTrim" :> 0) @@ ("rf_channels[0].ExtBAmpTrim" :> 0) @@
  ("rf_channels[0].IntAAmpTrim" :> 0) @@ ("rf_channels[0].IntBAmpTrim" :> 0) @@
  ("rf_channels[0].PhaseTrim0" :> 0) @@ ("rf_channels[0].AmpTrim0" :> 0) @@
  ("rf_channels[0].PhaseTrim90" :> 0) @@ ("rf_channels[0].AmpTrim90" :> 0) @@
  ("rf_channels[0].PhaseTrim180" :> 0) @@ ("rf_channels[0].AmpTrim180" :> 0) @@
  ("rf_channels[0].PhaseTrim270" :> 0) @@ ("rf_channels[0].AmpTrim270" :> 0) @@
  ("rf_channels[0].quadtrim" :> 0) @@ ("rf_channels[1].SF" :> Zero64) @@
  ("rf_channels[1].Offset" :> Zero64) @@ ("rf_channels[1].MultReg" :> 0) @@
  ("rf_channels[1].PhaseTwiddle" :> 0) @@ ("rf_channels[1].ChanAOffset" :> 0) @@
  ("rf_channels[1].ChanBOffset" :> 0) @@ ("rf_channels[1].ExtAPhaseTrim" :> 0) @@
  ("rf_channels[1].ExtAAmpTrim" :> 0) @@ ("rf_channels[1].ExtBPhaseTrim" :> 0) @@
  ("rf_channels[1].ExtBAmpTrim" :> 0) @@ ("rf_channels[1].IntAAmpTrim" :> 0) @@
  ("rf_channels[1].IntBAmpTrim" :> 0) @@ ("rf_channels[1].PhaseTrim0" :> 0) @@
  ("rf_channels[1].AmpTrim0" :> 0) @@ ("rf_channels[1].PhaseTrim90" :> 0) @@
  ("rf_channels[1].AmpTrim90" :> 0) @@ ("rf_channels[1].PhaseTrim180" :> 0) @@
  ("rf_channels[1].AmpTrim180" :> 0) @@ ("rf_channels[1].PhaseTrim270" :> 0) @@
  ("rf_channels[1].AmpTrim270" :> 0) @@ ("rf_channels[1].quadtrim" :> 0) @@
  ("rf_channels[2].SF" :> Zero64) @@ ("rf_channels[2].Offset" :> Zero64) @@
  ("rf_channels[2].MultReg" :> 0) @@ ("rf_channels[2].PhaseTwiddle" :> 0) @@
  ("rf_channels[2].ChanAOffset" :> 0) @@ ("rf_channels[2].ChanBOffset" :> 0) @@
  ("rf_channels[2].ExtAPhaseTrim" :> 0) @@ ("rf_channels[2].ExtAAmpTrim" :> 0) @@
  ("rf_channels[2].ExtBPhaseTrim" :> 0) @@ ("rf_channels[2].ExtBAmpTrim" :> 0) @@
  ("rf_channels[2].IntAAmpTrim" :> 0) @@ ("rf_channels[2].IntBAmpTrim" :> 0) @@
  ("rf_channels[2].PhaseTrim0" :> 0) @@ ("rf_channels[2].AmpTrim0" :> 0) @@
  ("rf_channels[2].PhaseTrim90" :> 0) @@ ("rf_channels[2].AmpTrim90" :> 0) @@
  ("rf_channels[2].PhaseTrim180" :> 0) @@ ("rf_channels[2].AmpTrim180" :> 0) @@
  ("rf_channels[2].PhaseTrim270" :> 0) @@ ("rf_channels[2].AmpTrim270" :> 0) @@
  ("rf_channels[2].quadtrim" :> 0) @@ ("GSH1" :> EmptyString) @@ ("GSH2" :> EmptyString) @@
  ("GSH3" :> EmptyString) @@ ("GSH4" :> EmptyString) @@ ("GSH5" :> EmptyString) @@
  ("EndTime" :> Zero64) @@ ("PreXK" :> Zeros(4)) @@ ("PreXA" :> Zeros(4)) @@ ("PreYK" :> Zeros(4)) @@
  ("PreYA" :> Zeros(4)) @@ ("PreZK" :> Zeros(4)) @@ ("PreZA" :> Zeros(4)) @@ ("XB0K" :> 0) @@
  ("XB0A" :> 0) @@ ("YB0K" :> 0) @@ ("YB0A" :> 0) @@ ("ZB0K" :> 0) @@ ("ZB0A" :> 0) @@
  ("DummyParam1" :> 0) @@ ("DummyParam2" :> 0) @@ ("Dec90" :> 0) @@ ("CPD" :> EmptyString) @@
  ("Trigger" :> 0) @@ ("XB0" :> 0) @@ ("YB0" :> 0) @@ ("ZB0" :> 0) @@ ("XOffset" :> 0) @@
  ("YOffset" :> 0) @@ ("ZOffset" :> 0) @@ ("Acquisition" :> 0)

AppParameters ==
  ("SI" :> 0) @@ ("DW" :> 0) @@ ("Pulses" :> Zeros(5)) @@ ("RD" :> 0) @@ ("tau" :> 0) @@
  ("Delays" :> Zeros(32)) @@ ("NS" :> 0) @@ ("FW" :> 0) @@ ("PH1" :> EmptyString) @@
  ("PH2" :> EmptyString) @@ ("PH3" :> EmptyString) @@ ("PH4" :> EmptyString) @@
  ("PH5" :> EmptyString) @@ ("RG" :> 0) @@ ("NECH" :> 0) @@ ("SW" :> Zero64) @@ ("DB" :> 0) @@
  ("Bessel" :> Zero64) @@ ("Butterworth" :> Zero64) @@ ("SequenceName" :> EmptyString) @@
  ("RfAmps_ch0" :> Zeros(6)) @@ ("RfAmps_ch1" :> Zeros(6)) @@ ("WW" :> 0) @@
  ("Counters" :> Zeros(32)) @@ ("GRead" :> 0) @@ ("GPhase" :> 0) @@ ("GSlice" :> 0) @@
  ("Gradients" :> Zeros(32)) @@ ("MAC1" :> 0) @@ ("MAC2" :> 0) @@ ("SH1" :> EmptyString) @@
  ("SH2" :> EmptyString) @@ ("SH3" :> EmptyString) @@ ("SH4" :> EmptyString) @@
  ("SH5" :> EmptyString) @@ ("DS" :> 0) @@ ("NA" :> 0) @@ ("GradientsIncrements" :> Zeros(9)) @@
  ("DimX" :> 0) @@ ("DimY" :> 0) @@ ("DimZ" :> 0) @@ ("DimC" :> 0) @@ ("ImageEchos" :> 0) @@
  ("ImageSlices" :> 0) @@ ("GradPhase" :> EmptyString) @@ ("GradSlice" :> EmptyString) @@
  ("GradRead" :> EmptyString) @@ ("TimePoints" :> 0) @@ ("SNR" :> 0) @@ ("FPs" :> Zeros(5)) @@
  ("GREADX" :> 0) @@ ("GREADY" :> 0) @@ ("GREADZ" :> 0) @@ ("GPHASEX" :> 0) @@
  ("GPHASEY" :> 0) @@ ("GPHASEZ" :> 0) @@ ("GSLICEX" :> 0) @@ ("GSLICEY" :> 0) @@
  ("GSLICEZ" :> 0) @@ ("MoreGains" :> Zeros(9))

ProcessingParameters ==
  ("ProcFlags" :> 0) @@ ("ProcDummies" :> None) @@ ("LB" :> 0) @@ ("PA" :> 0) @@ ("PB" :> 0) @@
  ("DP" :> 0) @@ ("SMP" :> 0) @@ ("PivotPoint" :> 0) @@ ("NOBC" :> 0) @@ ("PPRF" :> 0) @@
  ("PPTH" :> Zero64) @@ ("PPBL" :> Zero64) @@ ("PPAF" :> 0) @@ ("INC2D" :> 0) @@ ("SD2D" :> Zero64)

(***************************************************************************)
(* The statements of read_ridat_file between the open and the signal loop, *)
(* in program order: <<source line, operation, object, field, index,       *)
(* count>>.  object "loc" is a local variable.  index is -1 when the whole *)
(* variable or attribute is assigned, the element index of X[k] = ..., and *)
(* the first index of a slice X[lo:hi] = ...; count is the byte size of a  *)
(* string, the element count of a sequence, and for a seek the number of   *)
(* section sizes it adds up.                                               *)
(***************************************************************************)
Prog ==
  <<
    <<206, "int", "loc", "magic_number", -1, 0>>,
    <<207, "chkmagic", "loc", "magic_number", -1, 0>>,
    <<211, "int", "loc", "file_version", -1, 0>>,
    <<212, "chkversion", "loc", "file_version", -1, 0>>,
    <<218, "int", "loc", "Sect1Size", -1, 0>>,
    <<219, "int", "loc", "Sect2Size", -1, 0>>,
    <<220, "int", "loc", "Sect3Size", -1, 0>>,
    <<221, "int", "loc", "Sect4Size", -1, 0>>,
    <<222, "string", "loc", "Comment", -1, 128>>,
    <<224, "int", "loc", "IdEndMark", -1, 0>>,
    <<228, "seek", "loc", "", -1, 1>>,
    <<229, "new", "sys", "SysParameters", -1, 0>>,
    <<231, "float", "sys", "Dead1", -1, 0>>,
    <<232, "float", "sys", "Dead2", -1, 0>>,
    <<233, "float", "sys", "P90", -1, 0>>,
    <<234, "float", "sys", "P180", -1, 0>>,
    <<236, "double", "sys", "rf_channels[0].SF", -1, 0>>,
    <<237, "double", "sys", "rf_channels[0].Offset", -1, 0>>,
    <<238, "int", "loc", "Dummy1", -1, 0>>,
    <<239, "int", "sys", "rf_channels[0].MultReg", -1, 0>>,
    <<240, "int", "sys", "rf_channels[0].PhaseTwiddle", -1, 0>>,
    <<241, "int", "sys", "rf_channels[0].ChanAOffset", -1, 0>>,
    <<242, "int", "sys", "rf_channels[0].ChanBOffset", -1, 0>>,
    <<243, "int", "sys", "rf_channels[0].ExtAPhaseTrim", -1, 0>>,
    <<244, "int", "sys", "rf_channels[0].ExtAAmpTrim", -1, 0>>,
    <<245, "int", "sys", "rf_channels[0].ExtBPhaseTrim", -1, 0>>,
    <<246, "int", "sys", "rf_channels[0].ExtBAmpTrim", -1, 0>>,
    <<247, "int", "sys", "rf_channels[0].IntAAmpTrim", -1, 0>>,
    <<248, "int", "sys", "rf_channels[0].IntBAmpTrim", -1, 0>>,
    <<249, "int", "sys", "rf_channels[0].PhaseTrim0", -1, 0>>,
    <<250, "int", "sys", "rf_channels[0].AmpTrim0", -1, 0>>,
    <<251, "int", "sys", "rf_channels[0].PhaseTrim90", -1, 0>>,
    <<252, "int", "sys", "rf_channels[0].AmpTrim90", -1, 0>>,
    <<253, "int", "sys", "rf_channels[0].PhaseTrim180", -1, 0>>,
    <<254, "int", "sys", "rf_channels[0].AmpTrim180", -1, 0>>,
    <<255, "int", "sys", "rf_channels[0].PhaseTrim270", -1, 0>>,
    <<256, "int", "sys", "rf_channels[0].AmpTrim270", -1, 0>>,
    <<258, "double", "sys", "rf_channels[1].SF", -1, 0>>,
    <<259, "double", "sys", "rf_channels[1].Offset", -1, 0>>,
    <<260, "int", "sys", "rf_channels[1].MultReg", -1, 0>>,
    <<261, "int", "sys", "rf_channels[1].PhaseTwiddle", -1, 0>>,
    <<262, "int", "sys", "rf_channels[1].ChanAOffset", -1, 0>>,
    <<263, "int", "sys", "rf_channels[1].ChanBOffset", -1, 0>>,
    <<264, "int", "sys", "rf_channels[1].ExtAPhaseTrim", -1, 0>>,
    <<265, "int", "sys", "rf_channels[1].ExtAAmpTrim", -1, 0>>,
    <<266, "int", "sys", "rf_channels[1].ExtBPhaseTrim", -1, 0>>,
    <<267, "int", "sys", "rf_channels[1].ExtBAmpTrim", -1, 0>>,
    <<268, "int", "sys", "rf_channels[1].IntAAmpTrim", -1, 0>>,
    <<269, "int", "sys", "rf_channels[1].IntBAmpTrim", -1, 0>>,
    <<270, "int", "sys", "rf_channels[1].PhaseTrim0", -1, 0>>,
    <<271, "int", "sys", "rf_channels[1].AmpTrim0", -1, 0>>,
    <<272, "int", "sys", "rf_channels[1].PhaseTrim90", -1, 0>>,
    <<273, "int", "sys", "rf_channels[1].AmpTrim90", -1, 0>>,
    <<274, "int", "sys", "rf_channels[1].PhaseTrim180", -1, 0>>,
    <<275, "int", "sys", "rf_channels[1].AmpTrim180", -1, 0>>,
    <<276, "int", "sys", "rf_channels[1].PhaseTrim270", -1, 0>>,
    <<277, "int", "sys", "rf_channels[1].AmpTrim270", -1, 0>>,
    <<279, "double", "sys", "rf_channels[2].SF", -1, 0>>,
    <<280, "double", "sys", "rf_channels[2].Offset", -1, 0>>,
    <<281, "int", "sys", "rf_channels[2].MultReg", -1, 0>>,
    <<282, "int", "sys", "rf_channels[2].PhaseTwiddle", -1, 0>>,
    <<283, "int", "sys", "rf_channels[2].ChanAOffset", -1, 0>>,
    <<284, "int", "sys", "rf_channels[2].ChanBOffset", -1, 0>>,
    <<285, "int", "sys", "rf_channels[2].ExtAPhaseTrim", -1, 0>>,
    <<286, "int", "sys", "rf_channels[2].ExtAAmpTrim", -1, 0>>,
    <<287, "int", "sys", "rf_channels[2].ExtBPhaseTrim", -1, 0>>,
    <<288, "int", "sys", "rf_channels[2].ExtBAmpTrim", -1, 0>>,
    <<289, "int", "sys", "rf_channels[2].IntAAmpTrim", -1, 0>>,
    <<290, "int", "sys", "rf_channels[2].IntBAmpTrim", -1, 0>>,
    <<291, "int", "sys", "rf_channels[2].PhaseTrim0", -1, 0>>,
    <<292, "int", "sys", "rf_channels[2].AmpTrim0", -1, 0>>,
    <<293, "int", "sys", "rf_channels[2].PhaseTrim90", -1, 0>>,
    <<294, "int", "sys", "rf_channels[2].AmpTrim90", -1, 0>>,
    <<295, "int", "sys", "rf_channels[2].PhaseTrim180", -1, 0>>,
    <<296, "int", "sys", "rf_channels[2].AmpTrim180", -1, 0>>,
    <<297, "int", "sys", "rf_channels[2].PhaseTrim270", -1, 0>>,
    <<298, "int", "sys", "rf_channels[2].AmpTrim270", -1, 0>>,
    <<300, "int", "sys", "rf_channels[0].quadtrim", -1, 0>>,
    <<301, "int", "sys", "rf_channels[1].quadtrim", -1, 0>>,
    <<302, "int", "sys", "rf_channels[2].quadtrim", -1, 0>>,
    <<304, "string", "sys", "GSH1", -1, 20>>,
    <<305, "string", "sys", "GSH2", -1, 20>>,
    <<306, "string", "sys", "GSH3", -1, 20>>,
    <<307, "string", "sys", "GSH4", -1, 20>>,
    <<308, "string", "sys", "GSH5", -1, 20>>,
    <<310, "double", "sys", "EndTime", -1, 0>>,
    <<312, "float", "sys", "PreXK", 0, 0>>,
    <<313, "float", "sys", "PreXA", 0, 0>>,
    <<314, "float", "sys", "PreXK", 1, 0>>,
    <<315, "float", "sys", "PreXA", 1, 0>>,
    <<316, "float", "sys", "PreXK", 2, 0>>,
    <<317, "float", "sys", "PreXA", 2, 0>>,
    <<318, "float", "sys", "PreXK", 3, 0>>,
    <<319, "float", "sys", "PreXA", 3, 0>>,
    <<321, "float", "sys", "PreYK", 0, 0>>,
    <<322, "float", "sys", "PreYA", 0, 0>>,
    <<323, "float", "sys", "PreYK", 1, 0>>,
    <<324, "float", "sys", "PreYA", 1, 0>>,
    <<325, "float", "sys", "PreYK", 2, 0>>,
    <<326, "float", "sys", "PreYA", 2, 0>>,
    <<327, "float", "sys", "PreYK", 3, 0>>,
    <<328, "float", "sys", "PreYA", 3, 0>>,
    <<330, "float", "sys", "PreZK", 0, 0>>,
    <<331, "float", "sys", "PreZA", 0, 0>>,
    <<332, "float", "sys", "PreZK", 1, 0>>,
    <<333, "float", "sys", "PreZA", 1, 0>>,
    <<334, "float", "sys", "PreZK", 2, 0>>,
    <<335, "float", "sys", "PreZA", 2, 0>>,
    <<336, "float", "sys", "PreZK", 3, 0>>,
    <<337, "float", "sys", "PreZA", 3, 0>>,
    <<339, "float", "sys", "XB0K", -1, 0>>,
    <<340, "float", "sys", "XB0A", -1, 0>>,
    <<341, "float", "sys", "YB0K", -1, 0>>,
    <<342, "float", "sys", "YB0A", -1, 0>>,
    <<343, "float", "sys", "ZB0K", -1, 0>>,
    <<344, "float", "sys", "ZB0A", -1, 0>>,
    <<346, "float", "sys", "DummyPar1", -1, 0>>,
    <<347, "float", "sys", "DummyPar2", -1, 0>>,
    <<349, "float", "sys", "Dec90", -1, 0>>,
    <<350, "string", "sys", "CPD", -1, 20>>,
    <<351, "int", "sys", "Trigger", -1, 0>>,
    <<352, "float", "sys", "XB0", -1, 0>>,
    <<353, "float", "sys", "YB0", -1, 0>>,
    <<354, "float", "sys", "ZB0", -1, 0>>,
    <<355, "float", "sys", "XOffset", -1, 0>>,
    <<356, "float", "sys", "YOffset", -1, 0>>,
    <<357, "float", "sys", "ZOffset", -1, 0>>,
    <<358, "int", "sys", "Acquisition", -1, 0>>,
    <<360, "int", "loc", "SysEndMark", -1, 0>>,
    <<364, "seek", "loc", "", -1, 2>>,
    <<365, "new", "app", "AppParameters", -1, 0>>,
    <<367, "int", "app", "SI", -1, 0>>,
    <<368, "float", "app", "DW", -1, 0>>,
    <<369, "seq_f", "app", "Pulses", -1, 5>>,
    <<370, "float", "app", "RD", -1, 0>>,
    <<371, "float", "app", "tau", -1, 0>>,
    <<372, "seq_f", "app", "Delays", 0, 5>>,
    <<373, "int", "app", "NS", -1, 0>>,
    <<374, "float", "app", "FW", -1, 0>>,
    <<375, "string", "app", "PH1", -1, 132>>,
    <<376, "string", "app", "PH2", -1, 132>>,
    <<377, "string", "app", "PH3", -1, 132>>,
    <<378, "string", "app", "PH4", -1, 132>>,
    <<379, "string", "app", "PH5", -1, 132>>,
    <<380, "float", "app", "RG", -1, 0>>,
    <<381, "int", "app", "NECH", -1, 0>>,
    <<382, "double", "app", "SW", -1, 0>>,
    <<383, "int", "app", "DB", -1, 0>>,
    <<384, "double", "app", "Bessel", -1, 0>>,
    <<385, "double", "app", "Butterworth", -1, 0>>,
    <<386, "string", "app", "SequenceName", -1, 32>>,
    <<387, "seq_f", "app", "RfAmps_ch0", -1, 6>>,
    <<388, "seq_f", "app", "RfAmps_ch1", -1, 6>>,
    <<389, "float", "app", "WW", -1, 0>>,
    <<390, "seq_i", "app", "Counters", 0, 5>>,
    <<391, "int", "app", "GRead", -1, 0>>,
    <<392, "int", "app", "GPhase", -1, 0>>,
    <<393, "int", "app", "GSlice", -1, 0>>,
    <<394, "seq_i", "app", "Gradients", 0, 9>>,
    <<395, "float", "app", "MAC1", -1, 0>>,
    <<396, "float", "app", "MAC2", -1, 0>>,
    <<397, "string", "app", "SH1", -1, 20>>,
    <<398, "string", "app", "SH2", -1, 20>>,
    <<399, "string", "app", "SH3", -1, 20>>,
    <<400, "string", "app", "SH4", -1, 20>>,
    <<401, "string", "app", "SH5", -1, 20>>,
    <<402, "int", "app", "DS", -1, 0>>,
    <<403, "int", "app", "NA", -1, 0>>,
    <<404, "seq_i", "app", "GradientsIncrements", -1, 9>>,
    <<405, "int", "app", "DimX", -1, 0>>,
    <<406, "int", "app", "DimY", -1, 0>>,
    <<407, "int", "app", "DimZ", -1, 0>>,
    <<408, "int", "app", "DimC", -1, 0>>,
    <<409, "int", "app", "ImageEchos", -1, 0>>,
    <<410, "int", "app", "ImageSlices", -1, 0>>,
    <<411, "seq_f", "app", "Delays", 5, 7>>,
    <<412, "string", "app", "GradPhase", -1, 4>>,
    <<413, "string", "app", "GradSlice", -1, 4>>,
    <<414, "string", "app", "GradRead", -1, 4>>,
    <<415, "int", "app", "TimePoints", -1, 0>>,
    <<416, "int", "app", "SNR", -1, 0>>,
    <<417, "seq_i", "app", "Counters", 5, 7>>,
    <<418, "seq_f", "app", "FPs", -1, 5>>,
    <<419, "float", "app", "GREADX", -1, 0>>,
    <<420, "float", "app", "GREADY", -1, 0>>,
    <<421, "float", "app", "GREADZ", -1, 0>>,
    <<422, "float", "app", "GPHASEX", -1, 0>>,
    <<423, "float", "app", "GPHASEY", -1, 0>>,
    <<424, "float", "app", "GPHASEZ", -1, 0>>,
    <<425, "float", "app", "GSLICEX", -1, 0>>,
    <<426, "float", "app", "GSLICEY", -1, 0>>,
    <<427, "float", "app", "GSLICEZ", -1, 0>>,
    <<428, "seq_f", "app", "Delays", 12, 20>>,
    <<429, "seq_i", "app", "Counters", 12, 20>>,
    <<430, "seq_i", "app", "Gradients", 9, 23>>,
    <<431, "seq_f", "app", "MoreGains", -1, 9>>,
    <<433, "int", "loc", "AppEndMark", -1, 0>>,
    <<437, "seek", "loc", "", -1, 3>>,
    <<438, "new", "proc", "ProcessingParameters", -1, 0>>,
    <<440, "int", "proc", "ProcFlags", -1, 0>>,
    <<441, "seq_i", "proc", "ProcDummies", -1, 9>>,
    <<442, "float", "proc", "LB", -1, 0>>,
    <<443, "float", "proc", "PA", -1, 0>>,
    <<444, "float", "proc", "PB", -1, 0>>,
    <<445, "float", "proc", "DP", -1, 0>>,
    <<446, "int", "proc", "SMP", -1, 0>>,
    <<447, "int", "proc", "PivotPoint", -1, 0>>,
    <<448, "int", "proc", "NOBC", -1, 0>>,
    <<449, "int", "proc", "PPRF", -1, 0>>,
    <<450, "double", "proc", "PPTH", -1, 0>>,
    <<451, "double", "proc", "PPBL", -1, 0>>,
    <<452, "int", "proc", "PPAF", -1, 0>>,
    <<453, "float", "proc", "INC2D", -1, 0>>,
    <<454, "double", "proc", "SD2D", -1, 0>>,
    <<456, "int", "loc", "ProcEndMark", -1, 0>>
  >>

Line(s) == s[1]
Op(s) == s[2]
Obj(s) == s[3]
Fld(s) == s[4]
Idx(s) == s[5]
Cnt(s) == s[6]

\* the four end marks, in the order they are read (lines 224, 360, 433, 456)
EndMarkNames == <<"IdEndMark", "SysEndMark", "AppEndMark", "ProcEndMark">>

(***************************************************************************)
(* The bytes of the source file.  Bytes 0..23 spell the six header ints    *)
(* file.ints little-endian, byte file.badAt is 0xFF, the 4 bytes at w.at   *)
(* spell the int32 w.val for every w of file.words, and every other byte   *)
(* follows a fixed pattern: each aligned 4-byte word holds a small         *)
(* positive number that depends on its offset, so a value read names the   *)
(* place it was read from and is never the 0 an object is created with.    *)
(***************************************************************************)
\* byte b of the little-endian int32 v
WordByte(v, b) == (v \div (256 ^ b)) % 256

HeaderByte(p) == (file.ints[(p \div 4) + 1] \div (256 ^ (p % 4))) % 256

\* the words of file.words that cover byte p
WordsAt(p) == {k \in 1..Len(file.words) : p \in file.words[k].at..(file.words[k].at + 3)}

ByteAt(p) ==
  IF p = file.badAt THEN 255
  ELSE IF p < 6 * IntWidth THEN HeaderByte(p)
  ELSE IF WordsAt(p) # {}
    THEN LET w == file.words[CHOOSE k \in WordsAt(p) : \A l \in WordsAt(p) : k <= l]
         IN WordByte(w.val, p - w.at)
  ELSE IF p % 4 = 0 THEN 1 + ((p \div 4) % 100)
  ELSE 0

Min(a, b) == IF a <= b THEN a ELSE b

\* read_file.read(n) at cursor p: the number of bytes it returns
BytesRead(p, n) == IF p >= file.len THEN 0 ELSE Min(n, file.len - p)

Ok(v, p) == [ok |-> TRUE, val |-> v, err |-> "", pos |-> p]
Fail(e, p) == [ok |-> FALSE, val |-> 0, err |-> e, pos |-> p]

\* struct.unpack('i', b): the little-endian signed int32 of the 4 bytes at p
unpack_i(p) ==
  ByteAt(p) + 256 * ByteAt(p + 1) + 65536 * ByteAt(p + 2)
    + 16777216 * (IF ByteAt(p + 3) >= 128 THEN ByteAt(p + 3) - 256 ELSE ByteAt(p + 3))

\* struct.unpack('f', b): the float32 of the 4 bytes at p, named by its bits
unpack_f(p) == unpack_i(p)

\* struct.unpack('d', b): the float64 of the 8 bytes at p, named by its halves
unpack_d(p) == <<unpack_i(p), unpack_i(p + 4)>>

read_int_from_file(p) ==
  IF BytesRead(p, IntWidth) = IntWidth
    THEN Ok(unpack_i(p), p + IntWidth)
    ELSE Fail("UnexpectedEndOfFile", p + BytesRead(p, IntWidth))

read_double_from_file(p) ==
  IF BytesRead(p, DoubleWidth) = DoubleWidth
    THEN Ok(unpack_d(p), p + DoubleWidth)
    ELSE Fail("UnexpectedEndOfFile", p + BytesRead(p, DoubleWidth))

read_float_from_file(p) ==
  IF BytesRead(p, FloatWidth) = FloatWidth
    THEN Ok(unpack_f(p), p + FloatWidth)
    ELSE Fail("UnexpectedEndOfFile", p + BytesRead(p, FloatWidth))

\* str(b, "utf-8") succeeds.  Every byte >= 0x80 of the files examined here
\* (0xFF, and the bytes of the header ints) is ill-formed where it stands, so a
\* block decodes exactly when all its bytes are ASCII.
DecodesAsUtf8(p, n) == \A q \in p..(p + n - 1) : ByteAt(q) < 128

\* s.rstrip('\x00'): the length left of the n bytes at p, which is the
\* position of the last byte that is not NUL
rstrip(p, n) ==
  CHOOSE k \in 0..n :
    /\ k = 0 \/ ByteAt(p + k - 1) # 0
    /\ \A m \in (k + 1)..n : ByteAt(p + m - 1) = 0

\* read(size) returns what is left when fewer than size bytes remain, and the
\* shorter block is decoded like a full one.
read_string_from_file(p, size) ==
  LET got == BytesRead(p, size)
  IN IF DecodesAsUtf8(p, got)
       THEN Ok([at |-> p, len |-> rstrip(p, got)], p + got)
       ELSE Fail("InvalidEncoding", p + got)

\* The loop of read_data_sequence_from_file: element i is read at cursor p.
\* the bytes one element takes: a read that succeeds moves the cursor by them
ElementWidth(str_d_type) ==
  IF str_d_type = "d" THEN DoubleWidth ELSE IF str_d_type = "f" THEN FloatWidth ELSE IntWidth

RECURSIVE SequenceLoop(_, _, _, _, _)
SequenceLoop(str_d_type, num_elements, p, i, arr) ==
  IF i = num_elements THEN Ok(arr, p)
  ELSE LET r == CASE str_d_type = "f" -> read_float_from_file(p)
                  [] str_d_type = "d" -> read_double_from_file(p)
                  [] str_d_type = "i" -> read_int_from_file(p)
       IN IF r.ok
            THEN SequenceLoop(str_d_type, num_elements, p + ElementWidth(str_d_type),
                              i + 1, [arr EXCEPT ![i] = r.val])
            ELSE r

read_data_sequence_from_file(str_d_type, num_elements, p) ==
  IF str_d_type \in {"f", "d", "i"}
    THEN SequenceLoop(str_d_type, num_elements, p, 0, Zeros(num_elements))
    ELSE Fail("ValueError", p)

(***************************************************************************)
(* Assignment targets.                                                     *)
(***************************************************************************)
SeqOps == {"seq_f", "seq_i"}
SeqType(s) == IF Op(s) = "seq_f" THEN "f" ELSE "i"

\* obj.f = v (creates the attribute when the object has none of that name)
SetAttr(obj, f, v) == [g \in (DOMAIN obj) \cup {f} |-> IF g = f THEN v ELSE obj[g]]

\* obj.f[i] = v
SetItem(obj, f, i, v) == [obj EXCEPT ![f] = [@ EXCEPT ![i] = v]]

\* the indices of the slice [lo : lo + n]
SliceIndices(lo, n) == lo..(lo + n - 1)

\* the slice store with the lower bound dropped: obj.f[: lo + n] = v, repeating v
SetSlice_FromZero(obj, f, lo, n, v) ==
  LET old == obj[f]
  IN [obj EXCEPT ![f] = [i \in DOMAIN old |-> IF i < lo + n THEN v[i % n] ELSE old[i]]]

\* obj.f[lo : lo + n] = v, v an array of n elements
SetSlice(obj, f, lo, n, v) ==
  LET old == obj[f]
  IN [obj EXCEPT ![f] = [i \in DOMAIN old |->
                           IF i \in SliceIndices(lo, n) THEN v[i - lo] ELSE old[i]]]

AssignTo(obj, s, v) ==
  IF Idx(s) = -1 THEN SetAttr(obj, Fld(s), v)
  ELSE IF Op(s) \in SeqOps THEN SetSlice(obj, Fld(s), Idx(s), Cnt(s), v)
  ELSE SetItem(obj, Fld(s), Idx(s), v)

TrackedArrays == {"Delays", "Counters", "Gradients"}
NoWrites == [a \in TrackedArrays |-> Zeros(32)]

CountWrites(s) ==
  IF Obj(s) = "app" /\ Op(s) \in SeqOps /\ Idx(s) # -1 /\ Fld(s) \in TrackedArrays
    THEN [writes EXCEPT ![Fld(s)] =
            [i \in DOMAIN @ |-> IF i \in SliceIndices(Idx(s), Cnt(s)) THEN @[i] + 1 ELSE @[i]]]
    ELSE writes

\* the assignment of statement s, given the value read
Store(s, v) ==
  /\ locals' = IF Obj(s) = "loc" THEN AssignTo(locals, s, v) ELSE locals
  /\ sys_params' = IF Obj(s) = "sys" THEN AssignTo(sys_params, s, v) ELSE sys_params
  /\ app_params' = IF Obj(s) = "app" THEN AssignTo(app_params, s, v) ELSE app_params
  /\ proc_params' = IF Obj(s) = "proc" THEN AssignTo(proc_params, s, v) ELSE proc_params
  /\ writes' = CountWrites(s)

(***************************************************************************)
(* Exits.  Every statement from line 206 to line 473 runs inside           *)
(* "with open(f_path, 'rb') as ridat_file", which closes the file when the *)
(* block is left, by an exception as well as at its end.                   *)
(***************************************************************************)
\* an exit that leaves the file open, as without the with statement
Raise_Leak(e) ==
  /\ phase' = "raised"
  /\ err' = e
  /\ fileOpen' = fileOpen

Raise(e) ==
  /\ phase' = "raised"
  /\ err' = e
  /\ fileOpen' = FALSE

objVars == <<locals, sys_params, app_params, proc_params, writes>>
sigVars == <<real_values, imag_values, time_values>>
envVars == <<file, first, call, destBefore>>
outVars == <<result, data, dest>>

InBody(op) == phase = "body" /\ pc <= Len(Prog) /\ Op(Prog[pc]) = op

\* a read statement, r being what its read returned
ReadStatement(r) ==
  /\ pos' = r.pos
  /\ IF r.ok
       THEN /\ Store(Prog[pc], r.val)
            /\ pc' = pc + 1
            /\ UNCHANGED <<phase, err, fileOpen>>
       ELSE /\ Raise(r.err)
            /\ UNCHANGED <<pc, objVars>>
  /\ UNCHANGED <<envVars, outVars, sigVars, lpc, openCount>>

(***************************************************************************)
(* export_ridat_data_to_text_file, lines 485-486.                          *)
(***************************************************************************)
\* the export without its delimiter check
ExportCheckDelimiter_Skipped ==
  /\ phase = "export"
  /\ phase' = "open"
  /\ UNCHANGED <<err, fileOpen>>
  /\ UNCHANGED <<envVars, outVars, sigVars, objVars, pc, lpc, pos, openCount>>

\* the export opening save_path for writing before it decodes the source
ExportCheckDelimiter_OpensDest ==
  /\ phase = "export"
  /\ IF call.delimiter = ""
       THEN Raise("EmptyDelimiter") /\ dest' = dest
       ELSE /\ phase' = "open"
            /\ dest' = [exists |-> TRUE, lines |-> <<>>]
            /\ UNCHANGED <<err, fileOpen>>
  /\ UNCHANGED <<envVars, result, data, sigVars, objVars, pc, lpc, pos, openCount>>

ExportCheckDelimiter ==
  /\ phase = "export"
  /\ IF call.delimiter = ""
       THEN Raise("EmptyDelimiter")
       ELSE phase' = "open" /\ UNCHANGED <<err, fileOpen>>
  /\ UNCHANGED <<envVars, outVars, sigVars, objVars, pc, lpc, pos, openCount>>

(***************************************************************************)
(* read_ridat_file.                                                        *)
(***************************************************************************)
\* line 203
Open ==
  /\ phase = "open"
  /\ IF file.exists
       THEN /\ fileOpen' = TRUE
            /\ openCount' = openCount + 1
            /\ phase' = "body"
            /\ pc' = 1
            /\ pos' = 0
            /\ err' = err
       ELSE /\ Raise("FileNotFound")
            /\ UNCHANGED <<openCount, pc, pos>>
  /\ UNCHANGED <<envVars, outVars, sigVars, objVars, lpc>>

\* an int read that rejects an end mark that is not positive
ReadInt_MarkChecked ==
  /\ InBody("int")
  /\ LET r == read_int_from_file(pos)
     IN ReadStatement(IF r.ok /\ Obj(Prog[pc]) = "loc" /\ r.val <= 0
                             /\ \E k \in 1..4 : Fld(Prog[pc]) = EndMarkNames[k]
                        THEN Fail("InvalidEndMark", r.pos)
                        ELSE r)

ReadInt == InBody("int") /\ ReadStatement(read_int_from_file(pos))

ReadFloat == InBody("float") /\ ReadStatement(read_float_from_file(pos))

ReadDouble == InBody("double") /\ ReadStatement(read_double_from_file(pos))

ReadString ==
  /\ InBody("string")
  /\ \E r \in {read_string_from_file(pos, Cnt(Prog[pc]))} : ReadStatement(r)

ReadSequence ==
  /\ phase = "body" /\ pc <= Len(Prog) /\ Op(Prog[pc]) \in SeqOps
  /\ \E r \in {read_data_sequence_from_file(SeqType(Prog[pc]), Cnt(Prog[pc]), pos)} :
       ReadStatement(r)

\* lines 207-208
CheckMagic ==
  /\ InBody("chkmagic")
  /\ IF locals["magic_number"] # MagicNumber
       THEN Raise("InvalidMagic") /\ pc' = pc
       ELSE pc' = pc + 1 /\ UNCHANGED <<phase, err, fileOpen>>
  /\ UNCHANGED <<envVars, outVars, sigVars, objVars, lpc, pos, openCount>>

\* the version check with its two errors exchanged
VersionError_Swapped(file_version) ==
  IF file_version = 1 THEN "UnknownVersion"
  ELSE IF file_version # 0 THEN "UnsupportedFormat"
  ELSE ""

\* the exception lines 212-215 raise for a version, "" when none
VersionError(file_version) ==
  IF file_version = 1 THEN "UnsupportedFormat"
  ELSE IF file_version # 0 THEN "UnknownVersion"
  ELSE ""

CheckVersion ==
  /\ InBody("chkversion")
  /\ IF VersionError(locals["file_version"]) # ""
       THEN Raise(VersionError(locals["file_version"])) /\ pc' = pc
       ELSE pc' = pc + 1 /\ UNCHANGED <<phase, err, fileOpen>>
  /\ UNCHANGED <<envVars, outVars, sigVars, objVars, lpc, pos, openCount>>

\* the seek argument with Sect4Size left out
SeekOffset_NoSect4(k) ==
  locals["Sect1Size"]
    + (IF k >= 2 THEN locals["Sect2Size"] ELSE 0)
    + (IF k >= 3 THEN locals["Sect3Size"] ELSE 0)

\* the seek argument as the k-th size alone, not the sum up to it
SeekOffset_SizeOnly(k) ==
  CASE k = 1 -> locals["Sect1Size"]
    [] k = 2 -> locals["Sect2Size"]
    [] k = 3 -> locals["Sect3Size"]
    [] k = 4 -> locals["Sect4Size"]

\* the argument of the k-th seek: Sect1Size + ... + SectkSize
SeekOffset(k) ==
  locals["Sect1Size"]
    + (IF k >= 2 THEN locals["Sect2Size"] ELSE 0)
    + (IF k >= 3 THEN locals["Sect3Size"] ELSE 0)
    + (IF k >= 4 THEN locals["Sect4Size"] ELSE 0)

\* ridat_file.seek(offset): a negative offset raises OSError, any other offset
\* (also one past the end of the file) becomes the cursor.  lines 228, 364, 437
Seek ==
  /\ InBody("seek")
  /\ LET offset == SeekOffset(Cnt(Prog[pc]))
     IN IF offset < 0
          THEN Raise("InvalidSeek") /\ UNCHANGED <<pos, pc>>
          ELSE pos' = offset /\ pc' = pc + 1 /\ UNCHANGED <<phase, err, fileOpen>>
  /\ UNCHANGED <<envVars, outVars, sigVars, objVars, lpc, openCount>>

\* lines 229, 365, 438
New ==
  /\ InBody("new")
  /\ sys_params' = IF Obj(Prog[pc]) = "sys" THEN SysParameters ELSE sys_params
  /\ app_params' = IF Obj(Prog[pc]) = "app" THEN AppParameters ELSE app_params
  /\ proc_params' = IF Obj(Prog[pc]) = "proc" THEN ProcessingParameters ELSE proc_params
  /\ writes' = IF Obj(Prog[pc]) = "app" THEN NoWrites ELSE writes
  /\ pc' = pc + 1
  /\ UNCHANGED <<envVars, outVars, sigVars, locals, phase, err, fileOpen, lpc, pos, openCount>>

\* lines 460-461
DataSeek ==
  /\ phase = "body" /\ pc = Len(Prog) + 1
  /\ real_values' = <<>> /\ imag_values' = <<>> /\ time_values' = <<>>
  /\ LET offset == SeekOffset(4)
     IN IF offset < 0
          THEN Raise("InvalidSeek") /\ UNCHANGED <<pos, lpc>>
          ELSE pos' = offset /\ phase' = "loop" /\ lpc' = 0 /\ UNCHANGED <<err, fileOpen>>
  /\ UNCHANGED <<envVars, outVars, objVars, pc, openCount>>

\* one read of the loop body where a failing read starts the next iteration,
\* as with `continue' for `break' at line 469
LoopRead_Continue(r, values, others) ==
  /\ pos' = r.pos
  /\ values' = IF r.ok THEN Append(values, r.val) ELSE values
  /\ lpc' = IF r.ok THEN (lpc + 1) % 3 ELSE 0
  /\ phase' = phase
  /\ UNCHANGED others
  /\ UNCHANGED <<envVars, outVars, objVars, pc, err, fileOpen, openCount>>

\* one read of the loop body, lines 464-469: a failing read leaves the loop
LoopRead(r, values, others) ==
  /\ pos' = r.pos
  /\ IF r.ok
       THEN /\ values' = Append(values, r.val)
            /\ lpc' = (lpc + 1) % 3
            /\ phase' = phase
       ELSE /\ values' = values
            /\ lpc' = lpc
            /\ phase' = "loopexit"
  /\ UNCHANGED others
  /\ UNCHANGED <<envVars, outVars, objVars, pc, err, fileOpen, openCount>>

\* line 465
LoopReal ==
  /\ phase = "loop" /\ lpc = 0
  /\ LoopRead(read_float_from_file(pos), real_values, <<imag_values, time_values>>)

\* line 466
LoopImag ==
  /\ phase = "loop" /\ lpc = 1
  /\ LoopRead(read_float_from_file(pos), imag_values, <<real_values, time_values>>)

\* line 467 with the time read as a float32
LoopTime_Float32 ==
  /\ phase = "loop" /\ lpc = 2
  /\ LoopRead(read_float_from_file(pos), time_values, <<real_values, imag_values>>)

\* line 467
LoopTime ==
  /\ phase = "loop" /\ lpc = 2
  /\ LoopRead(read_double_from_file(pos), time_values, <<real_values, imag_values>>)

\* lines 471-479: np.array(list, dtype=np.float64) keeps length, order and
\* values; leaving the with block closes the file
Return ==
  /\ phase = "loopexit"
  /\ fileOpen' = FALSE
  /\ result' = [ok |-> TRUE, time |-> time_values, real |-> real_values,
                imag |-> imag_values,
                params |-> [sys |-> sys_params, app |-> app_params,
                            proc |-> proc_params, title |-> locals["Comment"]]]
  /\ phase' = IF call.fn = "export" THEN "fill" ELSE "done"
  /\ UNCHANGED <<envVars, data, dest, sigVars, objVars, pc, lpc, pos, err, openCount>>

(***************************************************************************)
(* export_ridat_data_to_text_file, lines 488-491.                          *)
(***************************************************************************)
\* data[:, j] = a with data of n rows: numpy takes an array of n elements, and
\* repeats (broadcasts) an array of exactly one element
FitsColumn(a, n) == Len(a) = n \/ Len(a) = 1
ColumnValue(a, n, i) == IF Len(a) = n THEN a[i] ELSE a[1]

\* lines 488-489
ExportFill ==
  /\ phase = "fill"
  /\ LET n == Len(result.time)
     IN IF FitsColumn(result.time, n) /\ FitsColumn(result.real, n)
             /\ FitsColumn(result.imag, n)
          THEN /\ data' = [i \in 1..n |-> <<ColumnValue(result.time, n, i),
                                             ColumnValue(result.real, n, i),
                                             ColumnValue(result.imag, n, i)>>]
               /\ phase' = "save"
               /\ UNCHANGED <<err, fileOpen>>
          ELSE /\ Raise("ShapeMismatch")
               /\ data' = data
  /\ UNCHANGED <<envVars, result, dest, sigVars, objVars, pc, lpc, pos, openCount>>

\* np.savetxt's default fmt
Fmt(v) == <<"%.18e", v>>

\* line 490, behind np.savetxt's comment marker
HeaderLine(delimiter) ==
  <<"# ", "Time (us)", delimiter, "Real (Machine Units)", delimiter, "Imag (Machine Units)">>

DataLine(row, delimiter) ==
  <<Fmt(row[1]), delimiter, Fmt(row[2]), delimiter, Fmt(row[3])>>

\* line 491: np.savetxt creates or truncates save_path and writes the header
\* line and one line per row
ExportSave ==
  /\ phase = "save"
  /\ dest' = [exists |-> TRUE,
              lines |-> <<HeaderLine(call.delimiter)>>
                          \o [i \in 1..Len(data) |-> DataLine(data[i], call.delimiter)]]
  /\ phase' = "done"
  /\ UNCHANGED <<envVars, result, data, sigVars, objVars, pc, lpc, pos, err, fileOpen,
                 openCount>>

(***************************************************************************)
(* The source files examined.                                              *)
(***************************************************************************)
Width(s) ==
  CASE Op(s) = "int" -> IntWidth
    [] Op(s) = "float" -> FloatWidth
    [] Op(s) = "double" -> DoubleWidth
    [] Op(s) = "string" -> Cnt(s)
    [] Op(s) = "seq_f" -> FloatWidth * Cnt(s)
    [] Op(s) = "seq_i" -> IntWidth * Cnt(s)
    [] OTHER -> 0

\* the bytes the statements i..j of Prog consume
RECURSIVE FieldBytes(_, _)
FieldBytes(i, j) ==
  IF i > j THEN 0
  ELSE IF i = j THEN Width(Prog[i])
  ELSE FieldBytes(i, (i + j) \div 2) + FieldBytes(((i + j) \div 2) + 1, j)

\* the index in Prog of the k-th seek
SeekIndexOf ==
  [k \in 1..3 |-> CHOOSE i \in 1..Len(Prog) : Op(Prog[i]) = "seek" /\ Cnt(Prog[i]) = k]
SeekIndex(k) == SeekIndexOf[k]

\* the bytes the header and each section's field list consume
HeaderBytes == FieldBytes(1, SeekIndex(1) - 1)
SysBytes == FieldBytes(SeekIndex(1), SeekIndex(2) - 1)
AppBytes == FieldBytes(SeekIndex(2), SeekIndex(3) - 1)
ProcBytes == FieldBytes(SeekIndex(3), Len(Prog))

\* the sizes of a file whose sections follow each other without gap or overlap
PackedSizes == <<HeaderBytes, SysBytes, AppBytes, ProcBytes>>
PackedDataStart == HeaderBytes + SysBytes + AppBytes + ProcBytes

\* where statement i reads in a packed file
StmtOffset(i) ==
  IF i < SeekIndex(1) THEN FieldBytes(1, i - 1)
  ELSE IF i < SeekIndex(2) THEN HeaderBytes + FieldBytes(SeekIndex(1), i - 1)
  ELSE IF i < SeekIndex(3) THEN HeaderBytes + SysBytes + FieldBytes(SeekIndex(2), i - 1)
  ELSE HeaderBytes + SysBytes + AppBytes + FieldBytes(SeekIndex(3), i - 1)

\* the most whole signal records a packed file holds
MaxRecords == 2
MaxLen == PackedDataStart + 16 * MaxRecords + 15

SourceFile(magic, version, sizes, len, badAt) ==
  [exists |-> TRUE, len |-> len, badAt |-> badAt, words |-> <<>>,
   ints |-> <<magic, version, sizes[1], sizes[2], sizes[3], sizes[4]>>]

\* badAt = -1: the file holds no byte 0xFF.
\* a well-formed file cut at every length, and with up to MaxRecords records
TruncatedFiles ==
  {SourceFile(MagicNumber, 0, PackedSizes, n, -1) : n \in 0..MaxLen}

\* other magic numbers and versions
RejectedFiles ==
  {SourceFile(m, v, PackedSizes, n, -1) :
     m \in {MagicNumber, MagicNumber + 1, 0}, v \in {0, 1, 2, -1},
     n \in {4, 6, 8, PackedDataStart}}

\* section sizes that leave gaps, overlap, or are negative
LayoutFiles ==
  {SourceFile(MagicNumber, 0, <<a, b, c, d>>, MaxLen, -1) :
     a \in {HeaderBytes, 0, -4},
     b \in {SysBytes, SysBytes + 8, SysBytes - 4},
     c \in {AppBytes, -3000},
     d \in {ProcBytes, 0, ProcBytes + 16, -3000}}

\* a byte 0xFF in a string or float64 field
BadOffsets ==
  {StmtOffset(i) + 1 : i \in {j \in 1..Len(Prog) : Op(Prog[j]) \in {"string", "double"}}}

BadByteFiles ==
  {SourceFile(MagicNumber, 0, PackedSizes, MaxLen, b) : b \in BadOffsets}

MissingFile ==
  [exists |-> FALSE, len |-> 0, badAt |-> -1, words |-> <<>>, ints |-> <<0, 0, 0, 0, 0, 0>>]

Files == TruncatedFiles \cup RejectedFiles \cup LayoutFiles \cup BadByteFiles
           \cup {MissingFile}

\* the files the export is called on
ExportedFiles ==
  {f \in TruncatedFiles \cup RejectedFiles \cup {MissingFile} :
     f.len >= PackedDataStart \/ f.len <= 8 \/ f.len = HeaderBytes}
    \cup BadByteFiles

Delimiters == {"", "\t", ","}

Calls ==
  {[fn |-> "read", delimiter |-> ""]}
    \cup {[fn |-> "export", delimiter |-> d] : d \in Delimiters}

AbsentFile == [exists |-> FALSE, lines |-> <<>>]
OldFile == [exists |-> TRUE, lines |-> << <<"old">> >>]

\* what a call leaves behind: how it ended, what it returned or raised, and
\* the destination file
NoOutcome == [phase |-> "", err |-> "", result |-> NoResult, dest |-> AbsentFile]
Outcome == [phase |-> phase, err |-> err, result |-> result, dest |-> dest]

Init ==
  /\ file \in Files
  /\ call \in Calls
  /\ call.fn = "export" => file \in ExportedFiles
  /\ first = NoOutcome
  /\ destBefore \in (IF call.fn = "export" THEN {AbsentFile, OldFile} ELSE {AbsentFile})
  /\ dest = destBefore
  /\ phase = IF call.fn = "export" THEN "export" ELSE "open"
  /\ pc = 0
  /\ lpc = 0
  /\ pos = 0
  /\ fileOpen = FALSE
  /\ openCount = 0
  /\ locals = NoObject
  /\ sys_params = NoObject
  /\ app_params = NoObject
  /\ proc_params = NoObject
  /\ writes = NoWrites
  /\ real_values = <<>>
  /\ imag_values = <<>>
  /\ time_values = <<>>
  /\ result = NoResult
  /\ err = ""
  /\ data = <<>>

Next ==
  \/ ExportCheckDelimiter
  \/ Open
  \/ ReadInt
  \/ ReadFloat
  \/ ReadDouble
  \/ ReadString
  \/ ReadSequence
  \/ CheckMagic
  \/ CheckVersion
  \/ Seek
  \/ New
  \/ DataSeek
  \/ LoopReal
  \/ LoopImag
  \/ LoopTime
  \/ Return
  \/ ExportFill
  \/ ExportSave

Spec == Init /\ [][Next]_vars


(***************************************************************************)
(* What the claims speak of.                                               *)
(***************************************************************************)
Terminal == phase \in {"done", "raised"}

\* the section sizes the file's header holds
SizeInFile(k) == file.ints[2 + k]

\* the number of bytes from absolute offset p to the end of the file
BytesFrom(p) == IF p >= file.len THEN 0 ELSE file.len - p

\* the bytes from the data-section start the code seeks to, to end of file
DataStartInFile == SizeInFile(1) + SizeInFile(2) + SizeInFile(3) + SizeInFile(4)
BytesRemaining == BytesFrom(DataStartInFile)

\* the iterations of the signal loop begun so far: the whole records read,
\* and the one under way or the one whose read failed
LoopIterations ==
  Len(time_values) + (IF phase = "loopexit" \/ lpc > 0 THEN 1 ELSE 0)

\* the signal loop is about to read its first record
AtFirstRecord == phase = "loop" /\ lpc = 0 /\ real_values = <<>>

\* the start of section k that the file's header gives
SectionStartInFile(k) ==
  SizeInFile(1) + (IF k >= 2 THEN SizeInFile(2) ELSE 0) + (IF k >= 3 THEN SizeInFile(3) ELSE 0)

\* the index in Prog of the read of ZB0A (line 344)
ZB0AIndex ==
  CHOOSE i \in 1..Len(Prog) : Obj(Prog[i]) = "sys" /\ Fld(Prog[i]) = "ZB0A"

\* the index in Prog of the version check
VersionCheckIndex == CHOOSE i \in 1..Len(Prog) : Op(Prog[i]) = "chkversion"

\* the statement whose slice covers index i of array a
SliceStmtOf ==
  [a \in TrackedArrays |-> [i \in 0..31 |->
     CHOOSE j \in 1..Len(Prog) :
       /\ Obj(Prog[j]) = "app" /\ Fld(Prog[j]) = a /\ Op(Prog[j]) \in SeqOps
       /\ Idx(Prog[j]) <= i /\ i < Idx(Prog[j]) + Cnt(Prog[j])]]

\* the offset in the Application section of the 4 bytes read for index i of a
SliceSourceOf ==
  [a \in TrackedArrays |-> [i \in 0..31 |->
     FieldBytes(SeekIndex(2), SliceStmtOf[a][i] - 1)
       + 4 * (i - Idx(Prog[SliceStmtOf[a][i]]))]]

EndMarkIndexOf ==
  [k \in 1..4 |-> CHOOSE i \in 1..Len(Prog) :
     Op(Prog[i]) = "int" /\ Obj(Prog[i]) = "loc" /\ Fld(Prog[i]) = EndMarkNames[k]]

\* the first statement of the header (k = 0) and of section k's field list
FirstIndex(k) == IF k = 0 THEN 1 ELSE SeekIndex(k)

\* the byte ranges the code decodes, by the sizes in the file's header: the
\* header (k = 0), section k, and the records (k = 4, to the end of the
\* file); a seek to a negative offset raises, and nothing is decoded there
RegionStart(k) ==
  IF k = 0 THEN 0 ELSE IF k = 4 THEN DataStartInFile ELSE SectionStartInFile(k)
RegionBytes == <<SysBytes, AppBytes, ProcBytes>>
RegionEnd(k) ==
  IF k = 0 THEN HeaderBytes
  ELSE IF k = 4 THEN (IF file.len > DataStartInFile THEN file.len ELSE DataStartInFile)
  ELSE RegionStart(k) + RegionBytes[k]
Region(k) == IF RegionStart(k) < 0 THEN {} ELSE RegionStart(k)..(RegionEnd(k) - 1)

\* where the k-th end mark lies: behind the fields read before it in its region
EndMarkOffset(k) ==
  RegionStart(k - 1) + FieldBytes(FirstIndex(k - 1), EndMarkIndexOf[k] - 1)
EndMarkBytes(k) == EndMarkOffset(k)..(EndMarkOffset(k) + IntWidth - 1)

\* no end mark's bytes lie in a region other than its own
EndMarksApart ==
  \A k \in 1..4 : \A j \in 0..4 : j # k - 1 => EndMarkBytes(k) \cap Region(j) = {}

(***************************************************************************)
(* Files that differ in their end marks only.  When the call on a file has *)
(* ended, the same call is made on the file with one more of its end marks *)
(* replaced: the first by 0, the second by -1, the third by 0 and the      *)
(* fourth by -1 (the fixed pattern holds neither value anywhere).  `first' *)
(* keeps the outcome of the call on the file as first given.               *)
(***************************************************************************)
OtherMarks == <<0, -1, 0, -1>>

CallAgain ==
  /\ phase \in {"done", "raised"}
  /\ Len(file.words) < 4
  /\ first' = IF file.words = <<>> THEN Outcome ELSE first
  /\ file' = [file EXCEPT !.words =
                Append(@, [at |-> EndMarkOffset(Len(@) + 1), val |-> OtherMarks[Len(@) + 1]])]
  /\ dest' = destBefore
  /\ phase' = IF call.fn = "export" THEN "export" ELSE "open"
  /\ pc' = 0
  /\ lpc' = 0
  /\ pos' = 0
  /\ fileOpen' = FALSE
  /\ openCount' = 0
  /\ locals' = NoObject
  /\ sys_params' = NoObject
  /\ app_params' = NoObject
  /\ proc_params' = NoObject
  /\ writes' = NoWrites
  /\ real_values' = <<>>
  /\ imag_values' = <<>>
  /\ time_values' = <<>>
  /\ result' = NoResult
  /\ err' = ""
  /\ data' = <<>>
  /\ UNCHANGED <<call, destBefore>>

\* the files called on again: the well-formed file cut around each end mark
\* and in the records, and the rejected, laid-out, bad-byte and missing files
CutsAroundMarks ==
  UNION {(PackedSizes[1] - 5)..(PackedSizes[1] + 1),
         (PackedSizes[1] + PackedSizes[2] - 5)..(PackedSizes[1] + PackedSizes[2] + 1),
         (PackedDataStart - PackedSizes[4] - 5)..(PackedDataStart - PackedSizes[4] + 1)}
    \cup ((PackedDataStart - 5)..MaxLen)

FilesAgain ==
  {f \in TruncatedFiles : f.len \in CutsAroundMarks}
    \cup RejectedFiles \cup LayoutFiles \cup BadByteFiles \cup {MissingFile}

InitAgain == Init /\ file \in FilesAgain

NextAgain == Next \/ CallAgain

SpecAgain == InitAgain /\ [][NextAgain]_vars

\* where the call stands: every step of Next changes it
ctlVars == <<phase, pc, lpc>>

\* the interpreter runs one thread and executes the next statement whenever
\* there is one
SpecLive == InitAgain /\ [][Next]_vars /\ WF_ctlVars(Next)

(***************************************************************************)
(* C1.  Whenever read_ridat_file returns, the time, real and imaginary     *)
(* sequences it returns have the same length, whatever number of bytes     *)
(* follows the data-section start.                                         *)
(***************************************************************************)
C1_EqualLengths ==
  result.ok =>
    /\ Len(result.time) = Len(result.real)
    /\ Len(result.time) = Len(result.imag)

(***************************************************************************)
(* C2, as claimed, for the time sequence, which holds whole records only:  *)
(* when 12*N + k bytes (0 <= k < 12) follow the data-section start, the    *)
(* returned sequence has N = floor(bytesRemaining / 12) elements.          *)
(***************************************************************************)
C2_LengthIsBytesOver12 ==
  result.ok => Len(result.time) = BytesRemaining \div 12

(***************************************************************************)
(* C2, amended.  One record is 4 + 4 + 8 = 16 bytes.  When 16*N + k bytes  *)
(* (0 <= k < 16) follow the data-section start, the decode that reached    *)
(* the signal loop returns, the time sequence has N = floor(bytesRemaining *)
(* / 16) elements, and the real and imaginary sequences have the elements  *)
(* whose 4 bytes are all present: floor((bytesRemaining + 12) / 16) and    *)
(* floor((bytesRemaining + 8) / 16).                                       *)
(***************************************************************************)
C2_LengthIsBytesOver16 ==
  /\ phase \in {"loop", "loopexit"} => err = ""
  /\ result.ok =>
       /\ Len(result.time) = BytesRemaining \div 16
       /\ Len(result.real) = (BytesRemaining + 12) \div 16
       /\ Len(result.imag) = (BytesRemaining + 8) \div 16

\* a returned decode of two whole records and a partial third
C2_Witness ==
  /\ result.ok
  /\ BytesRemaining \div 16 = 2
  /\ BytesRemaining % 16 = 13
  /\ Len(result.time) = 2

(***************************************************************************)
(* C3, as claimed: the signal loop reads its first record at absolute byte *)
(* offset Sect1Size + Sect2Size + Sect3Size.                               *)
(***************************************************************************)
C3_DataStartsAtOffset4 ==
  AtFirstRecord => pos = SizeInFile(1) + SizeInFile(2) + SizeInFile(3)

(***************************************************************************)
(* C3, amended.  The signal loop reads its first record at absolute byte   *)
(* offset Sect1Size + Sect2Size + Sect3Size + Sect4Size: the first real    *)
(* and imaginary values are the two float32 at that offset.                *)
(***************************************************************************)
C3_DataStartsAfterSect4 ==
  /\ AtFirstRecord => pos = DataStartInFile
  /\ (phase \in {"loop", "loopexit"} /\ Len(real_values) >= 1) =>
       real_values[1] = unpack_f(DataStartInFile)
  /\ (phase \in {"loop", "loopexit"} /\ Len(imag_values) >= 1) =>
       imag_values[1] = unpack_f(DataStartInFile + 4)

\* the loop starts in a file with a non-empty fourth section and data behind it
C3_Witness ==
  /\ AtFirstRecord
  /\ SizeInFile(4) > 0
  /\ BytesFrom(pos) >= 16

(***************************************************************************)
(* C4.  A decode that was started ends by (magic, version), in that order: *)
(* a first int32 other than 190955 ends it with InvalidMagic whatever the  *)
(* version and however short the rest; otherwise version 1 ends it with    *)
(* UnsupportedFormat and any version but 0 and 1 with UnknownVersion.  In  *)
(* each case only the ints checked so far were read, the cursor stands     *)
(* right behind them and nothing is returned.  Only magic 190955 with      *)
(* version 0 gets past the version check.                                  *)
(***************************************************************************)
C4_HeaderValidation ==
  LET magic == file.ints[1]
      version == file.ints[2]
  IN /\ (Terminal /\ openCount = 1 /\ file.len >= 4 /\ magic # MagicNumber) =>
          /\ err = "InvalidMagic"
          /\ pos = 4
          /\ DOMAIN locals = {"magic_number"}
          /\ ~result.ok
     /\ (Terminal /\ openCount = 1 /\ file.len >= 8 /\ magic = MagicNumber /\ version = 1) =>
          /\ err = "UnsupportedFormat"
          /\ pos = 8
          /\ DOMAIN locals = {"magic_number", "file_version"}
          /\ ~result.ok
     /\ (Terminal /\ openCount = 1 /\ file.len >= 8 /\ magic = MagicNumber
           /\ version \notin {0, 1}) =>
          /\ err = "UnknownVersion"
          /\ pos = 8
          /\ DOMAIN locals = {"magic_number", "file_version"}
          /\ ~result.ok
     /\ pc > VersionCheckIndex => (magic = MagicNumber /\ version = 0)

\* a wrong magic number is reported although the version is 1
C4_Witness ==
  /\ phase = "raised"
  /\ err = "InvalidMagic"
  /\ file.ints[2] = 1
  /\ file.len >= 8

(***************************************************************************)
(* C5.  A primitive read of the header or of a section that finds fewer    *)
(* bytes than it requires fails, itself, with UnexpectedEndOfFile, and     *)
(* nothing is returned; a string read never goes on with fewer bytes.      *)
(***************************************************************************)
C5_ShortReadFails ==
  [][(/\ phase = "body"
      /\ pc <= Len(Prog)
      /\ Width(Prog[pc]) > 0
      /\ BytesRead(pos, Width(Prog[pc])) < Width(Prog[pc]))
       => (phase' = "raised" /\ err' = "UnexpectedEndOfFile" /\ ~result'.ok)]_vars

(***************************************************************************)
(* C6.  An export called with an empty delimiter fails with EmptyDelimiter *)
(* before the source is opened or read and before the destination is       *)
(* created or written, whatever the source is.                             *)
(***************************************************************************)
C6_EmptyDelimiter ==
  (call.fn = "export" /\ call.delimiter = "" /\ phase # "export") =>
    /\ phase = "raised"
    /\ err = "EmptyDelimiter"
    /\ openCount = 0
    /\ ~fileOpen
    /\ pc = 0
    /\ pos = 0
    /\ locals = NoObject
    /\ ~result.ok
    /\ dest = destBefore

\* the export of an existing, well-formed source over an existing destination
C6_Witness ==
  /\ phase = "raised"
  /\ err = "EmptyDelimiter"
  /\ file.exists
  /\ file.len > PackedDataStart
  /\ destBefore.exists

(***************************************************************************)
(* C7.  When the decode returned a signal of N samples (N the length of    *)
(* the time sequence), the export ends having written one header line and  *)
(* N data lines, line i holding the i-th time, real and imaginary values   *)
(* in that order with the delimiter between them.                          *)
(***************************************************************************)
C7_ExportLines ==
  (call.fn = "export" /\ result.ok /\ Terminal) =>
    /\ phase = "done"
    /\ dest.exists
    /\ Len(dest.lines) = 1 + Len(result.time)
    /\ dest.lines[1][1] = "# "
    /\ \A i \in 1..Len(result.time) :
         dest.lines[i + 1] = <<Fmt(result.time[i]), call.delimiter,
                               Fmt(result.real[i]), call.delimiter,
                               Fmt(result.imag[i])>>

(***************************************************************************)
(* C8.  read_ridat_file opens the source at most once, exactly once when   *)
(* it gets to read, keeps it open while it reads, and has closed it        *)
(* whenever it has returned or raised.                                     *)
(***************************************************************************)
C8_ClosedOnEveryExit ==
  /\ openCount <= 1
  /\ phase \in {"body", "loop", "loopexit"} => (fileOpen /\ openCount = 1)
  /\ phase \in {"fill", "save", "done", "raised"} => ~fileOpen
  /\ result.ok => openCount = 1
  /\ err \in {"InvalidMagic", "UnsupportedFormat", "UnknownVersion",
              "UnexpectedEndOfFile", "InvalidEncoding", "InvalidSeek"} =>
       (openCount = 1 /\ ~fileOpen)

\* the seek to the Processing section failed after the Application section was read
C8_Witness ==
  /\ phase = "raised"
  /\ err = "InvalidSeek"
  /\ pc = SeekIndex(3)
  /\ openCount = 1
  /\ ~fileOpen

(***************************************************************************)
(* C9.  Each of the System, Application and Processing sections is decoded *)
(* from the absolute offset Sect1Size, Sect1Size + Sect2Size, Sect1Size +  *)
(* Sect2Size + Sect3Size, wherever the previous section's reads ended, and *)
(* its first field is the value at that offset.  No size is compared with  *)
(* the bytes a field list consumed: a file with a valid magic and version  *)
(* and valid strings is decoded to the end whenever the bytes of the       *)
(* header and of each field list lie in the file at those offsets.         *)
(***************************************************************************)
C9_SectionStarts ==
  /\ (/\ Terminal /\ call.fn = "read" /\ file.exists /\ file.badAt = -1
      /\ file.ints[1] = MagicNumber /\ file.ints[2] = 0
      /\ HeaderBytes <= file.len
      /\ SectionStartInFile(1) >= 0 /\ SectionStartInFile(1) + SysBytes <= file.len
      /\ SectionStartInFile(2) >= 0 /\ SectionStartInFile(2) + AppBytes <= file.len
      /\ SectionStartInFile(3) >= 0 /\ SectionStartInFile(3) + ProcBytes <= file.len
      /\ DataStartInFile >= 0)
       => result.ok
  /\ \A k \in 1..3 :
       (phase = "body" /\ pc \in {SeekIndex(k) + 1, SeekIndex(k) + 2}) =>
         pos = SectionStartInFile(k)
  /\ pc > SeekIndex(1) + 2 => sys_params["Dead1"] = unpack_f(SectionStartInFile(1))
  /\ pc > SeekIndex(2) + 2 => app_params["SI"] = unpack_i(SectionStartInFile(2))
  /\ pc > SeekIndex(3) + 2 => proc_params["ProcFlags"] = unpack_i(SectionStartInFile(3))

\* the Application section starts 8 bytes behind the end of the System fields
C9_Witness ==
  /\ phase = "body"
  /\ pc = SeekIndex(2) + 2
  /\ SizeInFile(2) = SysBytes + 8
  /\ pos = SizeInFile(1) + SysBytes + 8

(***************************************************************************)
(* C10.  In the 32-element Delays, Counters and Gradients arrays every     *)
(* index is stored at most once: an index whose slice has not been         *)
(* executed holds its initial zero, an index whose slice has been executed *)
(* holds the value that slice read for it, whatever slices ran later, and  *)
(* after a returned decode every index was stored exactly once.            *)
(***************************************************************************)
C10_SliceFrame ==
  /\ DOMAIN app_params # {} =>
       \A a \in TrackedArrays : \A i \in 0..31 :
         IF pc > SliceStmtOf[a][i]
           THEN /\ writes[a][i] = 1
                /\ app_params[a][i] = unpack_i(SectionStartInFile(2) + SliceSourceOf[a][i])
           ELSE /\ writes[a][i] = 0
                /\ app_params[a][i] = 0
  /\ result.ok => \A a \in TrackedArrays : \A i \in 0..31 : writes[a][i] = 1

\* a decode cut short after the first Delays slice and before the second
C10_Witness ==
  /\ phase = "raised"
  /\ writes["Delays"][4] = 1
  /\ writes["Delays"][5] = 0
  /\ app_params["Delays"][4] # 0
  /\ app_params["Delays"][5] = 0

(***************************************************************************)
(* C11.  The four end marks are read and not looked at: when the call is   *)
(* made again on a file that differs from the first in end marks only, and *)
(* no end mark's bytes lie in another decoded region, it ends as the first *)
(* call did: the same error, or the same sequences and metadata (and, for  *)
(* the export, the same destination file).                                 *)
(***************************************************************************)
C11_EndMarksIgnored ==
  (Terminal /\ file.words # <<>> /\ EndMarksApart) => Outcome = first

\* a file decoded with all four end marks replaced, the replaced values
\* having been read, and two records returned as before
C11_Witness ==
  /\ phase = "done" /\ call.fn = "read" /\ result.ok
  /\ Len(file.words) = 4 /\ EndMarksApart
  /\ \A k \in 1..4 : locals[EndMarkNames[k]] = OtherMarks[k]
  /\ Len(result.time) = 2
  /\ first.result = result

(***************************************************************************)
(* C12.  After a successful decode the System parameters' DummyParam1 and  *)
(* DummyParam2 hold the two float32 values read right after ZB0A, in that  *)
(* order, and the reads created no field beside those the record declares. *)
(***************************************************************************)
C12_DummyParams ==
  result.ok =>
    LET after == SectionStartInFile(1) + FieldBytes(SeekIndex(1), ZB0AIndex)
    IN /\ result.params.sys["DummyParam1"] = unpack_f(after)
       /\ result.params.sys["DummyParam2"] = unpack_f(after + FloatWidth)
       /\ DOMAIN result.params.sys = DOMAIN SysParameters

\* the errors a decode ends with
DecodeErrors ==
  {"FileNotFound", "InvalidMagic", "UnsupportedFormat", "UnknownVersion",
   "UnexpectedEndOfFile", "InvalidEncoding", "InvalidSeek"}

\* the signal loop: its iterations, its cursor, and what it returns at or
\* beyond the end of the file
C13_LoopBound ==
  /\ phase \in {"loop", "loopexit"} =>
       /\ LoopIterations <= (BytesRemaining \div 16) + 1
       /\ pos >= DataStartInFile + 16 * Len(time_values)
       /\ (phase = "loop" /\ lpc = 0) => pos = DataStartInFile + 16 * Len(time_values)
       /\ err = ""
  /\ phase = "loopexit" => LoopIterations = (BytesRemaining \div 16) + 1
  /\ (result.ok /\ DataStartInFile >= file.len) =>
       result.time = <<>> /\ result.real = <<>> /\ result.imag = <<>>

(***************************************************************************)
(* C13.  Every call of read_ridat_file ends, by a return or an exception.  *)
(* The signal loop begins at most floor(bytesRemaining / 16) + 1           *)
(* iterations, each whole record moving the cursor on by 16 bytes; it is   *)
(* left by a failing read and not by an exception, and the decode then     *)
(* returns; with the data-section start at or beyond the end of the file   *)
(* the three sequences returned are empty.                                 *)
(***************************************************************************)
C13_Terminates ==
  /\ <>Terminal
  /\ [](phase \in {"loop", "loopexit"} => <>result.ok)
  /\ []C13_LoopBound

\* a decode that returned three empty sequences from a file that ends where
\* its data section starts
C13_Witness ==
  /\ phase = "done" /\ call.fn = "read" /\ result.ok
  /\ DataStartInFile = file.len
  /\ result.time = <<>> /\ result.real = <<>> /\ result.imag = <<>>

(***************************************************************************)
(* C14.  The export writes nothing unless the decode of the source has     *)
(* returned: while read_ridat_file has not returned the destination file   *)
(* is as it was before the call, and when the decode fails the export ends *)
(* with the decode's error (missing source, invalid magic, unsupported or  *)
(* unknown version, short read, invalid encoding, failing seek) and never  *)
(* reaches the lines that fill and save the data.                          *)
(***************************************************************************)
C14_NoWriteUnlessDecoded ==
  (call.fn = "export" /\ ~result.ok) =>
    /\ dest = destBefore
    /\ phase \notin {"fill", "save", "done"}
    /\ (phase = "raised" /\ call.delimiter # "") =>
         /\ err \in DecodeErrors
         /\ err = "FileNotFound" <=> ~file.exists
         /\ err = "InvalidMagic" <=> (file.len >= 4 /\ file.ints[1] # MagicNumber)
         /\ err \in {"UnsupportedFormat", "UnknownVersion"} =>
              (file.len >= 8 /\ file.ints[2] # 0)
         /\ err = "InvalidEncoding" => file.badAt >= 0

\* an export that failed on a string that is not UTF-8, the destination being
\* the file that was there before the call
C14_Witness ==
  /\ call.fn = "export" /\ phase = "raised" /\ err = "InvalidEncoding"
  /\ destBefore = OldFile /\ dest = OldFile

====
